---- MODULE Spec2Model ----
(***************************************************************************)
(* A model of the e-mail / statement reconciliation pipeline of main.py    *)
(* and of the Drive spreadsheet writer of src/drive_uploader.py.           *)
(*                                                                         *)
(* Six specifications share the model of the remote store and of           *)
(* drive_sheet_manager:                                                    *)
(*   Spec        one run of main() of main.py: the file tasks, the         *)
(*               unmatched pass, the worker threads of asyncio.to_thread;  *)
(*   SpecRuns    main() run again as a new process over the same store;    *)
(*   SpecWriter  drive_sheet_manager called twice in sequence with the     *)
(*               same arguments on a store that may already hold the       *)
(*               document;                                                 *)
(*   SpecGp      process_file of src/google_process.py for every file;     *)
(*   SpecGate    one run of main() over more files than the semaphore      *)
(*               admits;                                                   *)
(*   SpecLive    one run of main() under fair scheduling.                  *)
(*                                                                         *)
(* Encoding of cell values.  Every cell value is a sequence of integers,   *)
(* so that all values are comparable:                                      *)
(*   <<>>        the empty string ""                                       *)
(*   <<-1>>      pandas' missing value NaN                                 *)
(*   <<0>>       a string that pandas' reader takes for a missing value    *)
(*               ("NA", "null", "None", ...: read_excel is called with     *)
(*               its default na_values)                                    *)
(*   <<10 + e>>  an ordinary non-empty string of e-mail e (a sender name,  *)
(*               an address, a date)                                       *)
(*   <<h>>       in column email_link: the link built from e-mail hash h   *)
(*   <<i, j>>    in a link column: ", ".join of the view links of the      *)
(*               uploaded files i and j                                    *)
(***************************************************************************)
EXTENDS Integers, Sequences, FiniteSets, TLC

(***************************************************************************)
(* Bounds of the model.                                                    *)
(***************************************************************************)
NumFiles == 2        \* statement files in STATEMENTS_DIR: 0..NumFiles
MaxRecords == 2      \* records extracted from one statement file
MaxFaults == 1       \* backend failures injected in one behaviour
MaxRuns == 2         \* runs of main() (separate processes) over one store
MaxRows == 2         \* rows handed to drive_sheet_manager by SpecWriter

None == 0            \* Python's None where an id or an e-mail is expected

VARIABLES
  \* ---- the remote store (Google Drive) and the injected failures
  docs,                   \* spreadsheet id -> [name, rows]: files().create/update
  blobs,                  \* uploaded file id -> [name, content]
  nextId,                 \* the id Drive gives to the next created file
  faults,                 \* failures injected so far
  \* ---- drive_sheet_manager, one activation per caller (a worker thread)
  dsm,
  \* ---- main.py: module state, main(), process_file, process_unmatched_emails
  run,                    \* which run of main() this is
  all_files,              \* STATEMENTS_DIR.glob: the statement files
  statements,             \* file -> the records its extraction yields
  stem,                   \* file -> file_path.stem
  mailbox,                \* what fetch_financial_emails returns
  modelFile,              \* email_ai_model.pkl: None or the corpus it was fitted on
  Matcher_model,          \* Matcher._model
  processed_records, uploaded_file_hashes, processed_email_hashes,
  main_pc, emails, semaphore, cur,
  task,                   \* file -> the process_file coroutine's frame
  unm,                    \* the frame of process_unmatched_emails
  hist,                   \* history of the run, for stating the properties
  uploadLog,              \* the calls of upload_unique_file made in this run
  \* ---- SpecWriter: the driver that calls drive_sheet_manager twice
  writer,
  \* ---- SpecGp: google_process.py, its module state and process_file frames
  gp

storeVars == <<docs, blobs, nextId, faults>>
inputVars == <<all_files, statements, stem, mailbox>>
ledgerVars == <<processed_records, uploaded_file_hashes, processed_email_hashes>>
matcherVars == <<modelFile, Matcher_model>>
mainVars == <<run, main_pc, emails, semaphore, cur, task, unm, hist, uploadLog>>
\* what a step of drive_sheet_manager leaves alone, the store apart
dsmFrame == <<inputVars, ledgerVars, matcherVars, mainVars, writer, gp>>
vars == <<storeVars, dsm, inputVars, ledgerVars, matcherVars, mainVars, writer, gp>>

(***************************************************************************)
(* Cell values and rows.                                                   *)
(***************************************************************************)
EmptyStr == <<>>
NaN == <<-1>>
NaStr == <<0>>

Max(S) == CHOOSE x \in S : \A y \in S : y <= x

RECURSIVE SeqsUpTo(_, _)
SeqsUpTo(S, n) ==
  IF n = 0 THEN {<<>>}
  ELSE LET shorter == SeqsUpTo(S, n - 1)
       IN shorter \cup {Append(s, x) : s \in {t \in shorter : Len(t) = n - 1}, x \in S}

Range(s) == {s[i] : i \in 1..Len(s)}

\* the columns of a frame: the union of the keys of its rows
Columns(rows) == UNION {DOMAIN rows[i] : i \in 1..Len(rows)}

\* pd.read_excel, cell by cell: a blank cell and a default na_values string are NaN
ReadCell(v) == IF v \in {EmptyStr, NaStr, NaN} THEN NaN ELSE v

\* DataFrame.to_excel, cell by cell: NaN is written as a blank cell
WriteCell(v) == IF v = NaN THEN EmptyStr ELSE v

\* DataFrame.fillna("")
FillNa(v) == IF v = NaN THEN EmptyStr ELSE v

\* pd.DataFrame(list of dicts) / DataFrame.reindex(columns=cols): a missing key is NaN
Reindex(rows, cols) ==
  [i \in 1..Len(rows) |->
     [k \in cols |-> IF k \in DOMAIN rows[i] THEN rows[i][k] ELSE NaN]]

DataFrame(records) == Reindex(records, Columns(records))

FillNaFrame(rows) == [i \in 1..Len(rows) |-> [k \in DOMAIN rows[i] |-> FillNa(rows[i][k])]]

to_excel(rows) == [i \in 1..Len(rows) |-> [k \in DOMAIN rows[i] |-> WriteCell(rows[i][k])]]

read_excel(content) ==
  [i \in 1..Len(content) |-> [k \in DOMAIN content[i] |-> ReadCell(content[i][k])]]

\* the key that drive_sheet_manager leaves out of a row's identity
HashExcluded == {"attach_path"}

\* md5(json.dumps(row.to_dict(), sort_keys=True)) of a row of df_existing[cols].fillna(""):
\* the hash is injective on the canonical JSON, which is the mapping itself
ExistingRowHash(row) == [k \in DOMAIN row \ HashExcluded |-> FillNa(row[k])]

\* md5(json.dumps(record_for_hash, sort_keys=True, cls=DateTimeEncoder)) of a new record
RecordRowHash(record) == [k \in DOMAIN record \ HashExcluded |-> record[k]]

existing_hashes(df_existing) ==
  {ExistingRowHash(df_existing[i]) : i \in 1..Len(df_existing)}

\* the loop "for record in records": keeps the records whose hash is new, in order
RECURSIVE unique_records(_, _)
unique_records(records, seen) ==
  IF records = <<>> THEN <<>>
  ELSE LET h == RecordRowHash(Head(records))
       IN IF h \in seen
          THEN unique_records(Tail(records), seen)
          ELSE <<Head(records)>> \o unique_records(Tail(records), seen \cup {h})

\* a merge that puts the new rows before the rows read
df_final_new_first(df_existing, unique) ==
  IF df_existing = <<>>
    THEN DataFrame(unique)
    ELSE LET all_cols == Columns(df_existing) \cup Columns(unique)
         IN FillNaFrame(Reindex(unique, all_cols))
              \o FillNaFrame(Reindex(df_existing, all_cols))

\* df_final: df_new alone when nothing was read, else both reindexed to the union
\* of the columns, NaN filled with "", existing rows first
df_final(df_existing, unique) ==
  IF df_existing = <<>>
    THEN DataFrame(unique)
    ELSE LET all_cols == Columns(df_existing) \cup Columns(unique)
         IN FillNaFrame(Reindex(df_existing, all_cols))
              \o FillNaFrame(Reindex(unique, all_cols))

(***************************************************************************)
(* E-mails, as fetch_financial_emails returns them, and the rows built     *)
(* from them.                                                              *)
(***************************************************************************)
\* attachments of e-mail e: the contents (bytes), in order.  E-mails 1 and 2 carry
\* one byte-identical attachment; e-mail 3 is known only to an old model file.
Attachments == << <<1>>, <<1, 2>>, <<3>> >>

Email(e) ==
  [hash |-> e, sender_name |-> <<10 + e>>, sender_email |-> <<20 + e>>,
   date |-> <<30 + e>>, attachments |-> Attachments[e]]

\* the row process_file and process_unmatched_emails of main.py build
MainRow(email, attachment_paths) ==
  [sender_name |-> email.sender_name,
   sender_email |-> email.sender_email,
   email_received_time |-> email.date,
   attach_file_or_image_path |-> attachment_paths,
   email_link |-> <<email.hash>>]

\* the row process_file of google_process.py builds
GpRow(email, attach_paths) ==
  [sender_name |-> email.sender_name,
   received_time |-> email.date,
   sender_email_address |-> email.sender_email,
   attach_path |-> attach_paths]

(***************************************************************************)
(* drive_sheet_manager(sheet_name, folder_id, records, append), run by one *)
(* caller c in a worker thread.  Every Drive request is one step, so that  *)
(* the requests of concurrent activations interleave.                      *)
(***************************************************************************)
Callers == 0..NumFiles          \* 0: process_unmatched_emails (and SpecWriter)

DsmIdle ==
  [pc |-> "idle", sheet_name |-> 0, records |-> <<>>, file_id |-> None,
   df_existing |-> <<>>, ret |-> None]

\* the activation at its first request
DsmCall(sheet_name, records) ==
  [pc |-> "list", sheet_name |-> sheet_name, records |-> records, file_id |-> None,
   df_existing |-> <<>>, ret |-> None]

\* files().list(q=name and mimeType and parent, pageSize=1): the ids that may come
\* back first; None when no spreadsheet has the name
ListedIds(sheet_name) ==
  LET found == {i \in DOMAIN docs : docs[i].name = sheet_name}
  IN IF found = {} THEN {None} ELSE found

\* a filter that lets every row through
DsmUnique_all(c) == dsm[c].records

DsmUnique(c) == unique_records(dsm[c].records, existing_hashes(dsm[c].df_existing))

\* lines 194-196, 211-213: the lookup, and where the function goes from there
D_List(c) ==
  /\ dsm[c].pc = "list"
  /\ \E fid \in ListedIds(dsm[c].sheet_name) :
       dsm' = [dsm EXCEPT ![c].file_id = fid,
                          ![c].ret = IF dsm[c].records = <<>> THEN fid ELSE None,
                          ![c].pc = IF dsm[c].records = <<>>
                                      THEN (IF fid = None THEN "create_empty" ELSE "done")
                                      ELSE (IF fid = None THEN "write" ELSE "download")]
  /\ UNCHANGED <<storeVars, dsmFrame>>

\* a creation that makes the workbook and a copy of it
D_CreateEmpty_twice(c) ==
  /\ dsm[c].pc = "create_empty"
  /\ docs' = docs @@ (nextId :> [name |-> dsm[c].sheet_name, rows |-> <<>>])
                  @@ ((nextId + 1) :> [name |-> dsm[c].sheet_name, rows |-> <<>>])
  /\ nextId' = nextId + 2
  /\ dsm' = [dsm EXCEPT ![c].pc = "done", ![c].ret = nextId, ![c].file_id = nextId]
  /\ UNCHANGED <<blobs, faults, dsmFrame>>

\* lines 197-211: no records and no document: an empty workbook is created
D_CreateEmpty(c) ==
  /\ dsm[c].pc = "create_empty"
  /\ docs' = docs @@ (nextId :> [name |-> dsm[c].sheet_name, rows |-> <<>>])
  /\ nextId' = nextId + 1
  /\ dsm' = [dsm EXCEPT ![c].pc = "done", ![c].ret = nextId, ![c].file_id = nextId]
  /\ UNCHANGED <<blobs, faults, dsmFrame>>

\* lines 214-222: the download and pd.read_excel of the existing workbook
D_Download(c) ==
  /\ dsm[c].pc = "download"
  /\ dsm' = [dsm EXCEPT ![c].df_existing = read_excel(docs[dsm[c].file_id].rows),
                        ![c].pc = "write"]
  /\ UNCHANGED <<storeVars, dsmFrame>>

\* lines 223-224: pd.read_excel raises, the existing frame is taken to be empty
D_ReadFails(c) ==
  /\ dsm[c].pc = "download"
  /\ faults < MaxFaults
  /\ faults' = faults + 1
  /\ dsm' = [dsm EXCEPT ![c].df_existing = <<>>, ![c].pc = "write"]
  /\ UNCHANGED <<docs, blobs, nextId, dsmFrame>>

\* lines 225-266: the filter, the merge, and files().update or files().create
drive_sheet_write(c, unique) ==
  LET content == to_excel(df_final(dsm[c].df_existing, unique))
      fid == dsm[c].file_id
  IN IF unique = <<>>
       THEN /\ dsm' = [dsm EXCEPT ![c].pc = "done", ![c].ret = fid]
            /\ UNCHANGED <<docs, nextId>>
       ELSE IF fid # None
         THEN /\ docs' = [docs EXCEPT ![fid].rows = content]
              /\ dsm' = [dsm EXCEPT ![c].pc = "done", ![c].ret = fid]
              /\ UNCHANGED nextId
         ELSE /\ docs' = docs @@ (nextId :> [name |-> dsm[c].sheet_name, rows |-> content])
              /\ nextId' = nextId + 1
              /\ dsm' = [dsm EXCEPT ![c].pc = "done", ![c].ret = nextId, ![c].file_id = nextId]

D_Write(c) ==
  /\ dsm[c].pc = "write"
  /\ drive_sheet_write(c, DsmUnique(c))
  /\ UNCHANGED <<blobs, faults, dsmFrame>>

\* lines 267-272: a Drive request raises (HttpError or other); the function logs
\* and returns None.  At "write" a request is made only when a row is new.
D_HttpError(c) ==
  /\ \/ dsm[c].pc \in {"list", "create_empty", "download"}
     \/ dsm[c].pc = "write" /\ DsmUnique(c) # <<>>
  /\ faults < MaxFaults
  /\ faults' = faults + 1
  /\ dsm' = [dsm EXCEPT ![c].pc = "done", ![c].ret = None]
  /\ UNCHANGED <<docs, blobs, nextId, dsmFrame>>

(***************************************************************************)
(* Matcher.match_record_email and EmailMatcherModel.                       *)
(*                                                                         *)
(* A record is a pair <<form, order>>: the mapping itself and the order in *)
(* which the extractor listed its keys.  Scores are in tenths.  The cosine *)
(* similarity of sklearn is not computed: Sim is a fixed table of the      *)
(* similarity of each record form to each e-mail.                          *)
(***************************************************************************)
MatchThreshold == 5       \* threshold=0.5 of match_record_email
AcceptScore == 7          \* "score < 0.7" of process_file
SemaphoreCapacity == 5    \* asyncio.Semaphore(5)

Sim == << <<9, 9, 2>>,     \* form 1: e-mails 1 and 2 tie at 0.9
          <<6, 7, 3>>,     \* form 2: e-mail 2 at 0.7; without it, e-mail 1 at 0.6
          <<3, 9, 8>> >>   \* form 3: e-mail 2 at 0.9; without it, e-mail 3 at 0.8

RecordForms == 1..Len(Sim)

\* the mapping a record is, whatever the order of its keys
Form(record) == record[1]

\* the hash without sort_keys=True: the key order of the extractor goes into it
record_hash_unsorted(record) == record[1] * 10 + record[2]

\* md5(json.dumps(record, sort_keys=True, cls=DateTimeEncoder)): sort_keys drops the
\* key order; md5 is taken to be injective on the canonical text
record_hash(record) == Form(record)

\* Matcher._model: None until the first call; then an EmailMatcherModel
ModelUnset == [loaded |-> FALSE, fitted |-> FALSE, emails |-> <<>>]
NoModelFile == [exists |-> FALSE, emails |-> <<>>]

\* a singleton that is always created anew, whatever file is on the disk
LoadedModel_fresh ==
  IF Matcher_model.loaded THEN Matcher_model
  ELSE [loaded |-> TRUE, fitted |-> FALSE, emails |-> <<>>]

\* lines 69-76 of matcher.py: the singleton is loaded from the file or created
LoadedModel ==
  IF Matcher_model.loaded THEN Matcher_model
  ELSE IF modelFile.exists
         THEN [loaded |-> TRUE, fitted |-> TRUE, emails |-> modelFile.emails]
         ELSE [loaded |-> TRUE, fitted |-> FALSE, emails |-> <<>>]

\* lines 77-80: an unfitted model is trained on the corpus of this call and saved
TrainsNow(corpus) == ~LoadedModel.fitted /\ corpus # <<>>

ModelAfterCall(corpus) ==
  IF TrainsNow(corpus) THEN [loaded |-> TRUE, fitted |-> TRUE, emails |-> corpus]
  ELSE LoadedModel

FileAfterCall(corpus) ==
  IF TrainsNow(corpus) THEN [exists |-> TRUE, emails |-> corpus] ELSE modelFile

\* sims.argmax(): the first index of the greatest similarity
ArgMax(form, corpus) ==
  CHOOSE i \in 1..Len(corpus) :
    /\ \A j \in 1..Len(corpus) : Sim[form][corpus[j]] <= Sim[form][corpus[i]]
    /\ \A j \in 1..(i - 1) : Sim[form][corpus[j]] < Sim[form][corpus[i]]

\* EmailMatcherModel.match: <<e-mail or None, score>>, from the model's own e-mails
match(model, form) ==
  IF ~model.fitted THEN <<None, 0>>
  ELSE LET idx == ArgMax(form, model.emails)
           score == Sim[form][model.emails[idx]]
       IN IF score >= MatchThreshold THEN <<model.emails[idx], score>>
                                     ELSE <<None, score>>

match_record_email(record, corpus) == match(ModelAfterCall(corpus), Form(record))

(***************************************************************************)
(* main.py: the ledgers and upload_unique_file.                            *)
(***************************************************************************)
\* a ledger whose insert is lost
LedgerAdd_lost(ledger, h) == ledger

\* set.add on a ledger
LedgerAdd(ledger, h) == ledger \cup {h}

\* f"{sender_email}_{hash}_{idx}{ext}": the name proposed for attachment idx
save_name(email, idx) == <<email.hash, idx>>

\* a skip that hands back the reference of the file stored earlier for the content
UploadSkipped_relinks(content, name, file_id) ==
  /\ content \in uploaded_file_hashes
  /\ IF \E b \in DOMAIN blobs : blobs[b].content = content
       THEN file_id \in {b \in DOMAIN blobs : blobs[b].content = content}
       ELSE file_id = None
  /\ uploadLog' = Append(uploadLog, [content |-> content, name |-> name,
                                     sent |-> FALSE, file_id |-> file_id])
  /\ UNCHANGED <<uploaded_file_hashes, blobs, nextId, faults>>

\* upload_unique_file(content, save_name, folder_id) returning file_id; the hash of
\* the content is the content.  It holds no await: it is one step.
UploadSkipped(content, name, file_id) ==
  /\ content \in uploaded_file_hashes
  /\ file_id = None
  /\ uploadLog' = Append(uploadLog, [content |-> content, name |-> name,
                                     sent |-> FALSE, file_id |-> None])
  /\ UNCHANGED <<uploaded_file_hashes, blobs, nextId, faults>>

\* the upload of a content without an entry in uploaded_file_hashes
UploadStored_unmarked(content, name, file_id) ==
  /\ content \notin uploaded_file_hashes
  /\ file_id = nextId
  /\ blobs' = blobs @@ (nextId :> [name |-> name, content |-> content])
  /\ nextId' = nextId + 1
  /\ uploadLog' = Append(uploadLog, [content |-> content, name |-> name,
                                     sent |-> TRUE, file_id |-> file_id])
  /\ UNCHANGED <<faults, uploaded_file_hashes>>

UploadStored(content, name, file_id) ==
  /\ content \notin uploaded_file_hashes
  /\ uploaded_file_hashes' = LedgerAdd(uploaded_file_hashes, content)
  /\ file_id = nextId
  /\ blobs' = blobs @@ (nextId :> [name |-> name, content |-> content])
  /\ nextId' = nextId + 1
  /\ uploadLog' = Append(uploadLog, [content |-> content, name |-> name,
                                     sent |-> TRUE, file_id |-> file_id])
  /\ UNCHANGED faults

\* a failed upload that hands back a reference to a file that was not stored
UploadFailed_dangling(content, name, file_id) ==
  /\ content \notin uploaded_file_hashes
  /\ faults < MaxFaults
  /\ faults' = faults + 1
  /\ uploaded_file_hashes' = LedgerAdd(uploaded_file_hashes, content)
  /\ file_id = nextId
  /\ nextId' = nextId + 1
  /\ uploadLog' = Append(uploadLog, [content |-> content, name |-> name,
                                     sent |-> TRUE, file_id |-> file_id])
  /\ UNCHANGED blobs

\* a failed upload that leaves no entry in uploaded_file_hashes
UploadFailed_unmarked(content, name, file_id) ==
  /\ content \notin uploaded_file_hashes
  /\ faults < MaxFaults
  /\ faults' = faults + 1
  /\ file_id = None
  /\ uploadLog' = Append(uploadLog, [content |-> content, name |-> name,
                                     sent |-> TRUE, file_id |-> None])
  /\ UNCHANGED <<blobs, nextId, uploaded_file_hashes>>

\* upload_to_drive catches the error of the request and returns None
UploadFailed(content, name, file_id) ==
  /\ content \notin uploaded_file_hashes
  /\ faults < MaxFaults
  /\ faults' = faults + 1
  /\ uploaded_file_hashes' = LedgerAdd(uploaded_file_hashes, content)
  /\ file_id = None
  /\ uploadLog' = Append(uploadLog, [content |-> content, name |-> name,
                                     sent |-> TRUE, file_id |-> None])
  /\ UNCHANGED <<blobs, nextId>>

upload_unique_file(content, name, file_id) ==
  \/ UploadSkipped(content, name, file_id)
  \/ UploadStored(content, name, file_id)
  \/ UploadFailed(content, name, file_id)

(***************************************************************************)
(* main.py: the coroutines.  asyncio runs one coroutine at a time; cur is  *)
(* the coroutine that holds the event loop (Idle: the loop is free and     *)
(* picks any coroutine that can go on).  A coroutine gives the loop up     *)
(* only at an await that suspends: the fetch, asyncio.to_thread, gather.   *)
(***************************************************************************)
Idle == -1
MainCo == 0
Files == 1..NumFiles
UnmatchedSheet == 0       \* "other_emails"; the sheet of stem s is s: f"{stem}_records"

TaskNew ==
  [pc |-> "new", records |-> <<>>, i |-> 1, matched_records |-> <<>>,
   matched_email_hashes |-> {}, email |-> None, idx |-> 1,
   attachment_paths |-> <<>>, result |-> {}]

UnmIdle ==
  [pc |-> "idle", i |-> 1, matched_email_hashes |-> {}, unmatched_records |-> <<>>,
   email |-> None, pending |-> <<>>]

HistNew ==
  [matcherCalls |-> [r \in RecordForms |-> 0],   \* calls of the matcher per record form
   rowsOf |-> [r \in RecordForms |-> 0],         \* rows appended per record form
   consumed |-> [e \in 1..Len(Attachments) |-> 0], \* times an e-mail hash was taken
   raised |-> {},                                \* the file tasks that raised
   docsBefore |-> <<>>,                          \* the documents when this run began
   idBefore |-> 1]                               \* nextId when this run began

Scheduled == Range(all_files)

\* a join that waits for the first task only
GatherComplete_any == \E f \in Scheduled : task[f].pc = "done"

\* "results = await asyncio.gather(...)": every scheduled task has returned
GatherComplete == \A f \in Scheduled : task[f].pc = "done"

\* a test of the unmatched pass that looks at the set it was passed only
IsUnmatched_ledgerless(h, matched_email_hashes) == h \notin matched_email_hashes

\* an unmatched pass that takes every e-mail
IsUnmatched_all(h, matched_email_hashes) == TRUE

\* line 164: the test of the unmatched pass
IsUnmatched(h, matched_email_hashes) ==
  ~(h \in matched_email_hashes \/ h \in processed_email_hashes)

\* a main() that fetches the e-mails whether or not there is a statement file
M_Start_fetches ==
  /\ main_pc = "start" /\ cur = MainCo
  /\ main_pc' = "fetch"
  /\ cur' = Idle
  /\ UNCHANGED <<storeVars, dsm, inputVars, ledgerVars, matcherVars, run, emails,
                 semaphore, task, unm, hist, uploadLog, writer, gp>>

\* lines 213-220 of main(): no statement file: return; else await the fetch
M_Start ==
  /\ main_pc = "start" /\ cur = MainCo
  /\ main_pc' = IF all_files = <<>> THEN "done" ELSE "fetch"
  /\ cur' = Idle
  /\ UNCHANGED <<storeVars, dsm, inputVars, ledgerVars, matcherVars, run, emails,
                 semaphore, task, unm, hist, uploadLog, writer, gp>>

\* lines 220-233: the e-mails arrive; the semaphore and one task per file are made
M_Fetched ==
  /\ main_pc = "fetch" /\ cur = Idle
  /\ emails' = mailbox
  /\ semaphore' = SemaphoreCapacity
  /\ task' = [f \in DOMAIN task |-> IF f \in Scheduled THEN [TaskNew EXCEPT !.pc = "ready"]
                                                ELSE TaskNew]
  /\ main_pc' = "gather"
  /\ UNCHANGED <<storeVars, dsm, inputVars, ledgerVars, matcherVars, run, cur, unm,
                 hist, uploadLog, writer, gp>>

\* a process_file that does not wait for the semaphore
PF_Enter_unguarded(t) ==
  /\ task[t].pc = "ready" /\ cur = Idle
  /\ semaphore' = semaphore - 1
  /\ task' = [task EXCEPT ![t].pc = "extracting"]
  /\ UNCHANGED <<storeVars, dsm, inputVars, ledgerVars, matcherVars, run, main_pc,
                 emails, cur, unm, hist, uploadLog, writer, gp>>

\* lines 101-103: the semaphore is taken and the extraction handed to a thread
PF_Enter(t) ==
  /\ task[t].pc = "ready" /\ cur = Idle
  /\ semaphore > 0
  /\ semaphore' = semaphore - 1
  /\ task' = [task EXCEPT ![t].pc = "extracting"]
  /\ UNCHANGED <<storeVars, dsm, inputVars, ledgerVars, matcherVars, run, main_pc,
                 emails, cur, unm, hist, uploadLog, writer, gp>>

\* a return that keeps the permit of the semaphore
Returned_keeps_permit(t, result) ==
  /\ task' = [task EXCEPT ![t].pc = "done", ![t].result = result]
  /\ UNCHANGED semaphore
  /\ cur' = Idle

\* the return of process_file: the result is set, the semaphore released
Returned(t, result) ==
  /\ task' = [task EXCEPT ![t].pc = "done", ![t].result = result]
  /\ semaphore' = semaphore + 1
  /\ cur' = Idle

\* an extraction without records that marks the fetched e-mails as consumed
PF_Extracted_marks(t) ==
  /\ task[t].pc = "extracting" /\ cur = Idle
  /\ IF statements[t] = <<>>
       THEN /\ Returned(t, {})
            /\ processed_email_hashes' = processed_email_hashes \cup Range(emails)
       ELSE /\ task' = [task EXCEPT ![t].pc = "loop", ![t].records = statements[t]]
            /\ cur' = t
            /\ UNCHANGED <<semaphore, processed_email_hashes>>
  /\ UNCHANGED <<storeVars, dsm, inputVars, processed_records, uploaded_file_hashes,
                 matcherVars, run, main_pc, emails, unm, hist, uploadLog, writer, gp>>

\* lines 103-108: the extraction returns
PF_Extracted(t) ==
  /\ task[t].pc = "extracting" /\ cur = Idle
  /\ IF statements[t] = <<>>
       THEN Returned(t, {})
       ELSE /\ task' = [task EXCEPT ![t].pc = "loop", ![t].records = statements[t]]
            /\ cur' = t
            /\ UNCHANGED semaphore
  /\ UNCHANGED <<storeVars, dsm, inputVars, ledgerVars, matcherVars, run, main_pc,
                 emails, unm, hist, uploadLog, writer, gp>>

\* extract_records_from_file catches its error and returns []: lines 104-106
PF_ExtractFails(t) ==
  /\ task[t].pc = "extracting" /\ cur = Idle
  /\ faults < MaxFaults
  /\ faults' = faults + 1
  /\ Returned(t, {})
  /\ UNCHANGED <<docs, blobs, nextId, dsm, inputVars, ledgerVars, matcherVars, run,
                 main_pc, emails, unm, hist, uploadLog, writer, gp>>

\* a process_file without the handler of lines 145-147: the exception leaves the
\* task and gather, and main() ends in its own handler
PF_Raise_escapes(t) ==
  /\ cur = Idle
  /\ \/ task[t].pc = "extracting"
     \/ task[t].pc = "writing" /\ dsm[t].pc = "list"
  /\ faults < MaxFaults
  /\ faults' = faults + 1
  /\ Returned(t, {})
  /\ dsm' = [dsm EXCEPT ![t] = DsmIdle]
  /\ hist' = [hist EXCEPT !.raised = @ \cup {t}]
  /\ main_pc' = "done"
  /\ UNCHANGED <<docs, blobs, nextId, inputVars, ledgerVars, matcherVars, run,
                 emails, unm, uploadLog, writer, gp>>

\* a handler that takes the e-mails of the failed task out of the ledger again
PF_Raise_rollback(t) ==
  /\ cur = Idle
  /\ \/ task[t].pc = "extracting"
     \/ task[t].pc = "writing" /\ dsm[t].pc = "list"
  /\ faults < MaxFaults
  /\ faults' = faults + 1
  /\ Returned(t, {})
  /\ dsm' = [dsm EXCEPT ![t] = DsmIdle]
  /\ hist' = [hist EXCEPT !.raised = @ \cup {t}]
  /\ processed_email_hashes' = processed_email_hashes \ task[t].matched_email_hashes
  /\ UNCHANGED <<docs, blobs, nextId, inputVars, processed_records, uploaded_file_hashes,
                 matcherVars, run, main_pc, emails, unm, uploadLog, writer, gp>>

\* lines 145-147: an await of asyncio.to_thread raises (the thread did not run);
\* the exception is caught at the file boundary and the result is set()
PF_Raise(t) ==
  /\ cur = Idle
  /\ \/ task[t].pc = "extracting"
     \/ task[t].pc = "writing" /\ dsm[t].pc = "list"
  /\ faults < MaxFaults
  /\ faults' = faults + 1
  /\ Returned(t, {})
  /\ dsm' = [dsm EXCEPT ![t] = DsmIdle]
  /\ hist' = [hist EXCEPT !.raised = @ \cup {t}]
  /\ UNCHANGED <<docs, blobs, nextId, inputVars, ledgerVars, matcherVars, run,
                 main_pc, emails, unm, uploadLog, writer, gp>>

\* lines 109-120: one record of the loop, up to the decision on its match
PF_Record(t) ==
  /\ task[t].pc = "loop" /\ cur = t
  /\ task[t].i <= Len(task[t].records)
  /\ LET record == task[t].records[task[t].i]
         h == record_hash(record)
         m == match_record_email(record, emails)
         email == m[1]
         score == m[2]
     IN IF h \in processed_records
          THEN /\ task' = [task EXCEPT ![t].i = @ + 1]
               /\ UNCHANGED <<ledgerVars, matcherVars, hist>>
          ELSE /\ processed_records' = LedgerAdd(processed_records, h)
               /\ Matcher_model' = ModelAfterCall(emails)
               /\ modelFile' = FileAfterCall(emails)
               /\ IF email = None \/ score < AcceptScore \/ email \in processed_email_hashes
                    THEN /\ task' = [task EXCEPT ![t].i = @ + 1]
                         /\ hist' = [hist EXCEPT !.matcherCalls[Form(record)] = @ + 1]
                         /\ UNCHANGED processed_email_hashes
                    ELSE /\ processed_email_hashes' = LedgerAdd(processed_email_hashes, email)
                         /\ task' = [task EXCEPT ![t].matched_email_hashes = @ \cup {email},
                                                 ![t].email = email,
                                                 ![t].idx = 1,
                                                 ![t].attachment_paths = <<>>,
                                                 ![t].pc = "upload"]
                         /\ hist' = [hist EXCEPT !.matcherCalls[Form(record)] = @ + 1,
                                                 !.consumed[email] = @ + 1]
               /\ UNCHANGED uploaded_file_hashes
  /\ UNCHANGED <<storeVars, dsm, inputVars, run, main_pc, emails, semaphore, cur, unm,
                 uploadLog, writer, gp>>

\* lines 122-127: one attachment of the matched e-mail
PF_Upload(t) ==
  /\ task[t].pc = "upload" /\ cur = t
  /\ task[t].idx <= Len(Email(task[t].email).attachments)
  /\ \E file_id \in 0..nextId :
       /\ upload_unique_file(Email(task[t].email).attachments[task[t].idx],
                             save_name(Email(task[t].email), task[t].idx), file_id)
       /\ task' = [task EXCEPT ![t].idx = @ + 1,
                               ![t].attachment_paths =
                                  IF file_id # None THEN Append(@, file_id) ELSE @]
  /\ UNCHANGED <<docs, dsm, inputVars, processed_records, processed_email_hashes,
                 matcherVars, run, main_pc, emails, semaphore, cur, unm, hist, writer, gp>>

\* lines 128-134: the row of the matched e-mail is appended
PF_AppendRow(t) ==
  /\ task[t].pc = "upload" /\ cur = t
  /\ task[t].idx > Len(Email(task[t].email).attachments)
  /\ task' = [task EXCEPT ![t].matched_records =
                            Append(@, MainRow(Email(task[t].email), task[t].attachment_paths)),
                          ![t].i = @ + 1,
                          ![t].pc = "loop"]
  /\ hist' = [hist EXCEPT !.rowsOf[Form(task[t].records[task[t].i])] = @ + 1]
  /\ UNCHANGED <<storeVars, dsm, inputVars, ledgerVars, matcherVars, run, main_pc,
                 emails, semaphore, cur, unm, uploadLog, writer, gp>>

\* lines 135-144: after the loop: the sheet write goes to a thread, or the task returns
PF_AfterLoop(t) ==
  /\ task[t].pc = "loop" /\ cur = t
  /\ task[t].i > Len(task[t].records)
  /\ IF task[t].matched_records # <<>>
       THEN /\ dsm' = [dsm EXCEPT ![t] = DsmCall(stem[t], task[t].matched_records)]
            /\ task' = [task EXCEPT ![t].pc = "writing"]
            /\ cur' = Idle
            /\ UNCHANGED semaphore
       ELSE /\ Returned(t, task[t].matched_email_hashes)
            /\ UNCHANGED dsm
  /\ UNCHANGED <<storeVars, inputVars, ledgerVars, matcherVars, run, main_pc, emails,
                 unm, hist, uploadLog, writer, gp>>

\* lines 143-144: drive_sheet_manager has returned (a reference or None)
PF_Written(t) ==
  /\ task[t].pc = "writing" /\ cur = Idle
  /\ dsm[t].pc = "done"
  /\ Returned(t, task[t].matched_email_hashes)
  /\ dsm' = [dsm EXCEPT ![t] = DsmIdle]
  /\ UNCHANGED <<storeVars, inputVars, ledgerVars, matcherVars, run, main_pc, emails,
                 unm, hist, uploadLog, writer, gp>>

\* lines 234-237: the join: the results are united and the unmatched pass is entered
M_Join ==
  /\ main_pc = "gather" /\ cur = Idle
  /\ GatherComplete
  /\ main_pc' = "unmatched"
  /\ cur' = MainCo
  /\ unm' = [UnmIdle EXCEPT !.pc = "loop",
                            !.matched_email_hashes = UNION {task[f].result : f \in Scheduled}]
  /\ UNCHANGED <<storeVars, dsm, inputVars, ledgerVars, matcherVars, run, emails,
                 semaphore, task, hist, uploadLog, writer, gp>>

\* lines 163-172: one e-mail of the unmatched pass, up to "await asyncio.gather"
UN_Email ==
  /\ main_pc = "unmatched" /\ unm.pc = "loop" /\ cur = MainCo
  /\ unm.i <= Len(emails)
  /\ LET e == emails[unm.i]
     IN IF ~IsUnmatched(e, unm.matched_email_hashes)
          THEN /\ unm' = [unm EXCEPT !.i = @ + 1]
               /\ UNCHANGED <<processed_email_hashes, hist, cur>>
          ELSE /\ processed_email_hashes' = LedgerAdd(processed_email_hashes, e)
               /\ hist' = [hist EXCEPT !.consumed[e] = @ + 1]
               /\ unm' = [unm EXCEPT !.email = e,
                                     !.pc = "gather",
                                     !.pending = [k \in 1..Len(Email(e).attachments) |->
                                                    [done |-> FALSE, file_id |-> None]]]
               /\ cur' = Idle
  /\ UNCHANGED <<storeVars, dsm, inputVars, processed_records, uploaded_file_hashes,
                 matcherVars, run, main_pc, emails, semaphore, task, uploadLog, writer, gp>>

\* line 171-172: one of the gathered upload_unique_file coroutines runs
U_Run(k) ==
  /\ main_pc = "unmatched" /\ unm.pc = "gather" /\ cur = Idle
  /\ k \in 1..Len(unm.pending) /\ ~unm.pending[k].done
  /\ \E file_id \in 0..nextId :
       /\ upload_unique_file(Email(unm.email).attachments[k],
                             save_name(Email(unm.email), k), file_id)
       /\ unm' = [unm EXCEPT !.pending[k] = [done |-> TRUE, file_id |-> file_id]]
  /\ UNCHANGED <<docs, dsm, inputVars, processed_records, processed_email_hashes,
                 matcherVars, run, main_pc, emails, semaphore, cur, task, hist, writer, gp>>

\* a pass that an upload without a reference ends: no row, no write
UN_Gathered_aborts ==
  /\ main_pc = "unmatched" /\ unm.pc = "gather" /\ cur = Idle
  /\ \A k \in 1..Len(unm.pending) : unm.pending[k].done
  /\ IF \E k \in 1..Len(unm.pending) : unm.pending[k].file_id = None
       THEN /\ unm' = [unm EXCEPT !.pending = <<>>, !.pc = "done"]
            /\ main_pc' = "done"
            /\ UNCHANGED cur
       ELSE /\ unm' = [unm EXCEPT !.unmatched_records =
                                    Append(@, MainRow(Email(unm.email),
                                       [k \in 1..Len(unm.pending) |-> unm.pending[k].file_id])),
                                  !.i = @ + 1,
                                  !.pending = <<>>,
                                  !.pc = "loop"]
            /\ cur' = MainCo
            /\ UNCHANGED main_pc
  /\ UNCHANGED <<storeVars, dsm, inputVars, ledgerVars, matcherVars, run,
                 emails, semaphore, task, hist, uploadLog, writer, gp>>

\* lines 173-185: gather is complete; the row of the e-mail is appended
UN_Gathered ==
  /\ main_pc = "unmatched" /\ unm.pc = "gather" /\ cur = Idle
  /\ \A k \in 1..Len(unm.pending) : unm.pending[k].done
  /\ LET attachment_ids == [k \in 1..Len(unm.pending) |-> unm.pending[k].file_id]
         attachment_paths == SelectSeq(attachment_ids, LAMBDA r : r # None)
     IN unm' = [unm EXCEPT !.unmatched_records =
                              Append(@, MainRow(Email(unm.email), attachment_paths)),
                           !.i = @ + 1,
                           !.pending = <<>>,
                           !.pc = "loop"]
  /\ cur' = MainCo
  /\ UNCHANGED <<storeVars, dsm, inputVars, ledgerVars, matcherVars, run, main_pc,
                 emails, semaphore, task, hist, uploadLog, writer, gp>>

\* lines 186-194: after the loop: the rows go to "other_emails" in a thread
UN_AfterLoop ==
  /\ main_pc = "unmatched" /\ unm.pc = "loop" /\ cur = MainCo
  /\ unm.i > Len(emails)
  /\ cur' = Idle
  /\ IF unm.unmatched_records # <<>>
       THEN /\ dsm' = [dsm EXCEPT ![0] = DsmCall(UnmatchedSheet, unm.unmatched_records)]
            /\ unm' = [unm EXCEPT !.pc = "writing"]
            /\ UNCHANGED main_pc
       ELSE /\ unm' = [unm EXCEPT !.pc = "done"]
            /\ main_pc' = "done"
            /\ UNCHANGED dsm
  /\ UNCHANGED <<storeVars, inputVars, ledgerVars, matcherVars, run, emails, semaphore,
                 task, hist, uploadLog, writer, gp>>

\* lines 187-194 and 238: the write has returned; main() ends
UN_Written ==
  /\ main_pc = "unmatched" /\ unm.pc = "writing" /\ cur = Idle
  /\ dsm[0].pc = "done"
  /\ dsm' = [dsm EXCEPT ![0] = DsmIdle]
  /\ unm' = [unm EXCEPT !.pc = "done"]
  /\ main_pc' = "done"
  /\ UNCHANGED <<storeVars, inputVars, ledgerVars, matcherVars, run, emails, semaphore,
                 cur, task, hist, uploadLog, writer, gp>>

\* lines 195-196: the await of asyncio.to_thread raises; the pass logs and returns
UN_Raise ==
  /\ main_pc = "unmatched" /\ unm.pc = "writing" /\ cur = Idle
  /\ dsm[0].pc = "list"
  /\ faults < MaxFaults
  /\ faults' = faults + 1
  /\ dsm' = [dsm EXCEPT ![0] = DsmIdle]
  /\ unm' = [unm EXCEPT !.pc = "done"]
  /\ main_pc' = "done"
  /\ UNCHANGED <<docs, blobs, nextId, inputVars, ledgerVars, matcherVars, run, emails,
                 semaphore, cur, task, hist, uploadLog, writer, gp>>

\* the process ends and main.py is started again over the same files, mailbox and
\* store: lines 55-57 and Matcher._model are initialised anew, the model file stays
NewRun ==
  /\ main_pc = "done" /\ run < MaxRuns
  /\ run' = run + 1
  /\ main_pc' = "start"
  /\ cur' = MainCo
  /\ emails' = <<>>
  /\ semaphore' = 0
  /\ task' = [f \in DOMAIN task |-> TaskNew]
  /\ unm' = UnmIdle
  /\ processed_records' = {}
  /\ uploaded_file_hashes' = {}
  /\ processed_email_hashes' = {}
  /\ Matcher_model' = ModelUnset
  /\ hist' = [HistNew EXCEPT !.docsBefore = docs, !.idBefore = nextId]
  /\ uploadLog' = <<>>
  /\ UNCHANGED <<storeVars, dsm, inputVars, modelFile, writer, gp>>

(***************************************************************************)
(* google_process.py: the revision of the pipeline that keeps the links of *)
(* an e-mail's attachments in email_attachments_cache and asks Drive       *)
(* whether a file of the name exists before it uploads.  Its               *)
(* upload_unique_file and its record loop hold awaits of asyncio.to_thread,*)
(* so a process_file task gives the loop up inside the loop.               *)
(***************************************************************************)
GpTaskNew ==
  [pc |-> "new", records |-> <<>>, i |-> 1, email |-> None, idx |-> 1,
   attach_paths |-> <<>>, final_records |-> <<>>, matched_email_hashes |-> {},
   result |-> {}]

\* lines 34-36: the module state; no task, no semaphore
GpOff ==
  [processed_records |-> {}, processed_email_hashes |-> {},
   email_attachments_cache |-> [e \in 1..Len(Attachments) |-> <<>>],
   semaphore |-> 0, task |-> [f \in Files |-> GpTaskNew]]

\* is_record_unique_in_sheet(sheet_name, DRIVE_FOLDER_ID, record): the statement
\* record is hashed over its own keys and looked up among the hashes of the rows
\* of the sheet, which are e-mail rows hashed over the sheet's columns; no sheet,
\* an empty sheet and every error give True as well
is_record_unique_in_sheet(sheet_name, record) == TRUE

\* file_exists_in_drive(save_name, folder_id): a file of the name is in the folder
file_exists_in_drive(name) == \E b \in DOMAIN blobs : blobs[b].name = name

\* what no step of google_process.py changes: main.py's state and the driver
gpFrame ==
  <<docs, inputVars, ledgerVars, run, main_pc, emails, semaphore, task, unm, hist, writer>>

\* the return of process_file: the semaphore is released
GpReturned(t, result) ==
  [gp EXCEPT !.task[t].pc = "done", !.task[t].result = result, !.semaphore = @ + 1]

\* lines 90-92: the semaphore is taken and the extraction handed to a thread
GP_Enter(t) ==
  /\ gp.task[t].pc = "ready" /\ cur = Idle
  /\ gp.semaphore > 0
  /\ gp' = [gp EXCEPT !.semaphore = @ - 1, !.task[t].pc = "extracting"]
  /\ UNCHANGED <<storeVars, dsm, matcherVars, cur, uploadLog, gpFrame>>

\* lines 92-98: the extraction returns
GP_Extracted(t) ==
  /\ gp.task[t].pc = "extracting" /\ cur = Idle
  /\ IF statements[t] = <<>>
       THEN gp' = GpReturned(t, {}) /\ UNCHANGED cur
       ELSE /\ gp' = [gp EXCEPT !.task[t].pc = "loop", !.task[t].records = statements[t]]
            /\ cur' = t
  /\ UNCHANGED <<storeVars, dsm, matcherVars, uploadLog, gpFrame>>

\* lines 99-112: one record, up to "await asyncio.to_thread(is_record_unique_in_sheet"
GP_Record(t) ==
  /\ gp.task[t].pc = "loop" /\ cur = t
  /\ gp.task[t].i <= Len(gp.task[t].records)
  /\ LET record == gp.task[t].records[gp.task[t].i]
         h == record_hash(record)
         m == match_record_email(record, emails)
     IN IF h \in gp.processed_records
          THEN /\ gp' = [gp EXCEPT !.task[t].i = @ + 1]
               /\ UNCHANGED <<matcherVars, cur>>
          ELSE /\ Matcher_model' = ModelAfterCall(emails)
               /\ modelFile' = FileAfterCall(emails)
               /\ IF m[1] = None \/ m[2] < AcceptScore
                    THEN /\ gp' = [gp EXCEPT !.processed_records = LedgerAdd(@, h),
                                             !.task[t].i = @ + 1]
                         /\ UNCHANGED cur
                    ELSE /\ gp' = [gp EXCEPT !.processed_records = LedgerAdd(@, h),
                                             !.task[t].email = m[1],
                                             !.task[t].pc = "unique"]
                         /\ cur' = Idle
  /\ UNCHANGED <<storeVars, dsm, uploadLog, gpFrame>>

\* lines 124-132: the links are cached, the row appended, the loop goes on
GpAppendRow(g, t, attach_paths) ==
  LET e == g.task[t].email
  IN [g EXCEPT !.email_attachments_cache[e] = attach_paths,
               !.processed_email_hashes = LedgerAdd(@, e),
               !.task[t].final_records = Append(@, GpRow(Email(e), attach_paths)),
               !.task[t].matched_email_hashes = @ \cup {e},
               !.task[t].attach_paths = attach_paths,
               !.task[t].i = @ + 1,
               !.task[t].pc = "loop"]

\* lines 113-121: the uniqueness check has returned; the cache is read; an e-mail
\* without cached links goes to upload_unique_file, which awaits the existence check
GP_Unique(t) ==
  /\ gp.task[t].pc = "unique" /\ cur = Idle
  /\ LET e == gp.task[t].email
         record == gp.task[t].records[gp.task[t].i]
         attach_paths == gp.email_attachments_cache[e]
     IN IF ~is_record_unique_in_sheet(stem[t], record)
          THEN gp' = [gp EXCEPT !.task[t].i = @ + 1, !.task[t].pc = "loop"] /\ cur' = t
          ELSE IF attach_paths = <<>> /\ Email(e).attachments # <<>>
            THEN /\ gp' = [gp EXCEPT !.task[t].attach_paths = <<>>,
                                     !.task[t].idx = 1,
                                     !.task[t].pc = "exists"]
                 /\ UNCHANGED cur
            ELSE /\ gp' = GpAppendRow(gp, t, attach_paths)
                 /\ cur' = t
  /\ UNCHANGED <<storeVars, dsm, matcherVars, uploadLog, gpFrame>>

\* lines 118-124 after upload_unique_file returned file_id for attachment idx
GpAfterUpload(t, file_id) ==
  LET e == gp.task[t].email
      paths == IF file_id # None THEN Append(gp.task[t].attach_paths, file_id)
                                 ELSE gp.task[t].attach_paths
  IN IF gp.task[t].idx < Len(Email(e).attachments)
       THEN /\ gp' = [gp EXCEPT !.task[t].attach_paths = paths,
                                !.task[t].idx = @ + 1,
                                !.task[t].pc = "exists"]
            /\ UNCHANGED cur
       ELSE /\ gp' = GpAppendRow(gp, t, paths)
            /\ cur' = t

\* lines 55-62 of upload_unique_file: file_exists_in_drive has answered
GP_Exists(t) ==
  /\ gp.task[t].pc = "exists" /\ cur = Idle
  /\ LET e == gp.task[t].email
         name == save_name(Email(e), gp.task[t].idx)
         content == Email(e).attachments[gp.task[t].idx]
     IN IF file_exists_in_drive(name)
          THEN /\ GpAfterUpload(t, None)
               /\ uploadLog' = Append(uploadLog, [content |-> content, name |-> name,
                                                  sent |-> FALSE, file_id |-> None])
          ELSE /\ gp' = [gp EXCEPT !.task[t].pc = "upload"]
               /\ UNCHANGED <<cur, uploadLog>>
  /\ UNCHANGED <<storeVars, dsm, matcherVars, gpFrame>>

\* lines 62-64: upload_to_drive has stored the file and returned its id
GP_Upload(t) ==
  /\ gp.task[t].pc = "upload" /\ cur = Idle
  /\ LET e == gp.task[t].email
         name == save_name(Email(e), gp.task[t].idx)
         content == Email(e).attachments[gp.task[t].idx]
     IN /\ blobs' = blobs @@ (nextId :> [name |-> name, content |-> content])
        /\ nextId' = nextId + 1
        /\ uploadLog' = Append(uploadLog, [content |-> content, name |-> name,
                                           sent |-> TRUE, file_id |-> nextId])
        /\ GpAfterUpload(t, nextId)
  /\ UNCHANGED <<faults, dsm, matcherVars, gpFrame>>

\* upload_to_drive catches the error of the request and returns None
GP_UploadFails(t) ==
  /\ gp.task[t].pc = "upload" /\ cur = Idle
  /\ faults < MaxFaults
  /\ faults' = faults + 1
  /\ LET e == gp.task[t].email
         name == save_name(Email(e), gp.task[t].idx)
         content == Email(e).attachments[gp.task[t].idx]
     IN uploadLog' = Append(uploadLog, [content |-> content, name |-> name,
                                        sent |-> TRUE, file_id |-> None])
  /\ GpAfterUpload(t, None)
  /\ UNCHANGED <<blobs, nextId, dsm, matcherVars, gpFrame>>

\* lines 136-139: after the loop: the sheet write goes to a thread, or the task returns
GP_AfterLoop(t) ==
  /\ gp.task[t].pc = "loop" /\ cur = t
  /\ gp.task[t].i > Len(gp.task[t].records)
  /\ cur' = Idle
  /\ IF gp.task[t].final_records # <<>>
       THEN /\ dsm' = [dsm EXCEPT ![t] = DsmCall(stem[t], gp.task[t].final_records)]
            /\ gp' = [gp EXCEPT !.task[t].pc = "writing"]
       ELSE /\ gp' = GpReturned(t, gp.task[t].matched_email_hashes)
            /\ UNCHANGED dsm
  /\ UNCHANGED <<storeVars, matcherVars, uploadLog, gpFrame>>

\* lines 137-139: drive_sheet_manager has returned
GP_Written(t) ==
  /\ gp.task[t].pc = "writing" /\ cur = Idle
  /\ dsm[t].pc = "done"
  /\ gp' = GpReturned(t, gp.task[t].matched_email_hashes)
  /\ dsm' = [dsm EXCEPT ![t] = DsmIdle]
  /\ UNCHANGED <<storeVars, matcherVars, cur, uploadLog, gpFrame>>

(***************************************************************************)
(* The driver of SpecWriter: drive_sheet_manager is called WriterCalls     *)
(* times in sequence with the same sheet name, folder and records.         *)
(***************************************************************************)
WriterCalls == 2

WriterOff == [pc |-> "off", calls |-> 0, sheet_name |-> 0, records |-> <<>>,
              before |-> <<>>, first |-> <<>>, rets |-> <<>>]

W_Call ==
  /\ writer.pc \in {"idle", "returned"}
  /\ writer.calls < WriterCalls
  /\ dsm' = [dsm EXCEPT ![0] = DsmCall(writer.sheet_name, writer.records)]
  /\ writer' = [writer EXCEPT !.pc = "calling", !.calls = @ + 1, !.before = docs]
  /\ UNCHANGED <<storeVars, inputVars, ledgerVars, matcherVars, mainVars, gp>>

W_Return ==
  /\ writer.pc = "calling"
  /\ dsm[0].pc = "done"
  /\ writer' = [writer EXCEPT !.pc = "returned",
                              !.rets = Append(@, dsm[0].ret),
                              !.first = IF writer.calls = 1 THEN docs ELSE @]
  /\ dsm' = [dsm EXCEPT ![0] = DsmIdle]
  /\ UNCHANGED <<storeVars, inputVars, ledgerVars, matcherVars, mainVars, gp>>

(***************************************************************************)
(* Initial states and specifications.                                      *)
(***************************************************************************)
\* the records a statement file may hold: every form, and form 1 once more with
\* its keys in another order
RecordPool == {<<f, 0>> : f \in RecordForms} \cup {<<1, 1>>}

\* an email_ai_model.pkl left by a run over an older mailbox
OldModelFile == [exists |-> TRUE, emails |-> <<3, 1>>]

\* the rows SpecWriter hands to drive_sheet_manager
RowPool ==
  {MainRow(Email(1), <<>>), MainRow(Email(1), <<9>>),
   GpRow(Email(1), <<>>), GpRow(Email(1), <<9>>),
   [MainRow(Email(2), <<>>) EXCEPT !.sender_name = NaStr]}

StoreEmpty ==
  /\ docs = <<>>
  /\ blobs = <<>>
  /\ nextId = 1
  /\ faults = 0
  /\ dsm = [c \in Callers |-> DsmIdle]

\* the state of a process that has just imported main.py
InitMain(fileCounts, recordSeqs, mailboxes, modelFiles) ==
  /\ StoreEmpty
  /\ \E n \in fileCounts :
       /\ all_files = [i \in 1..n |-> i]
       /\ statements \in [Files -> recordSeqs]
       /\ stem \in [Files -> Files]
       /\ \A f \in Files : stem[f] <= f
       /\ \A f \in Files : f > n => statements[f] = <<>> /\ stem[f] = f
  /\ mailbox \in mailboxes
  /\ modelFile \in modelFiles
  /\ Matcher_model = ModelUnset
  /\ processed_records = {}
  /\ uploaded_file_hashes = {}
  /\ processed_email_hashes = {}
  /\ run = 1
  /\ main_pc = "start"
  /\ cur = MainCo
  /\ emails = <<>>
  /\ semaphore = 0
  /\ task = [f \in Files |-> TaskNew]
  /\ unm = UnmIdle
  /\ hist = HistNew
  /\ uploadLog = <<>>
  /\ writer = WriterOff
  /\ gp = GpOff

Init ==
  InitMain(0..NumFiles, SeqsUpTo(RecordPool, MaxRecords), {<<>>, <<1, 2>>},
           {NoModelFile, OldModelFile})

DsmStep(c) ==
  \/ D_List(c)
  \/ D_Download(c)
  \/ D_ReadFails(c)
  \/ D_Write(c)
  \/ D_HttpError(c)

RunStep ==
  \/ M_Start
  \/ M_Fetched
  \/ \E t \in Files :
       \/ PF_Enter(t)
       \/ PF_Extracted(t)
       \/ PF_ExtractFails(t)
       \/ PF_Raise(t)
       \/ PF_Record(t)
       \/ PF_Upload(t)
       \/ PF_AppendRow(t)
       \/ PF_AfterLoop(t)
       \/ PF_Written(t)
  \/ M_Join
  \/ UN_Email
  \/ \E k \in 1..Max({Len(Attachments[e]) : e \in 1..Len(Attachments)}) : U_Run(k)
  \/ UN_Gathered
  \/ UN_AfterLoop
  \/ UN_Written
  \/ UN_Raise
  \/ \E c \in Callers : DsmStep(c)

\* one run of main()
Next == RunStep

Spec == Init /\ [][Next]_vars

\* main() run MaxRuns times as separate processes over one store and one model
\* file, with the same statement files and the same mailbox
InitRuns ==
  InitMain(1..NumFiles, SeqsUpTo(RecordPool, 1), {<<1, 2>>}, {NoModelFile})

NextRuns == RunStep \/ NewRun

SpecRuns == InitRuns /\ [][NextRuns]_vars

\* drive_sheet_manager alone: the store holds no document of the name, an empty
\* one, or one that an earlier call wrote
InitWriter ==
  /\ blobs = <<>>
  /\ faults = 0
  /\ dsm = [c \in Callers |-> DsmIdle]
  /\ \/ docs = <<>> /\ nextId = 1
     \/ /\ \E stored \in SeqsUpTo(RowPool, 1) :
             docs = (1 :> [name |-> 1, rows |-> to_excel(DataFrame(stored))])
        /\ nextId = 2
  /\ \E records \in SeqsUpTo(RowPool, MaxRows) :
       writer = [WriterOff EXCEPT !.pc = "idle", !.sheet_name = 1, !.records = records]
  /\ all_files = <<>>
  /\ statements = [f \in Files |-> <<>>]
  /\ stem = [f \in Files |-> f]
  /\ mailbox = <<>>
  /\ modelFile = NoModelFile
  /\ Matcher_model = ModelUnset
  /\ processed_records = {}
  /\ uploaded_file_hashes = {}
  /\ processed_email_hashes = {}
  /\ run = 1
  /\ main_pc = "done"
  /\ cur = Idle
  /\ emails = <<>>
  /\ semaphore = 0
  /\ task = [f \in Files |-> TaskNew]
  /\ unm = UnmIdle
  /\ hist = HistNew
  /\ uploadLog = <<>>
  /\ gp = GpOff

NextWriter ==
  \/ W_Call
  \/ W_Return
  \/ D_CreateEmpty(0)
  \/ DsmStep(0)

SpecWriter == InitWriter /\ [][NextWriter]_vars

\* process_file of google_process.py for every statement file, run concurrently
\* over one fetched mailbox under a semaphore of capacity 1 or SemaphoreCapacity
InitGp ==
  /\ StoreEmpty
  /\ all_files = [i \in 1..NumFiles |-> i]
  /\ statements \in [Files -> SeqsUpTo(RecordPool, 1)]
  /\ stem \in [Files -> Files]
  /\ \A f \in Files : stem[f] <= f
  /\ mailbox = <<1, 2>>
  /\ emails = mailbox
  /\ modelFile = NoModelFile
  /\ Matcher_model = ModelUnset
  /\ processed_records = {}
  /\ uploaded_file_hashes = {}
  /\ processed_email_hashes = {}
  /\ run = 1
  /\ main_pc = "done"
  /\ cur = Idle
  /\ semaphore = 0
  /\ task = [f \in Files |-> TaskNew]
  /\ unm = UnmIdle
  /\ hist = HistNew
  /\ uploadLog = <<>>
  /\ writer = WriterOff
  /\ \E capacity \in {1, SemaphoreCapacity} :
       gp = [GpOff EXCEPT !.semaphore = capacity,
                          !.task = [f \in Files |-> [GpTaskNew EXCEPT !.pc = "ready"]]]

NextGp ==
  \/ \E t \in Files :
       \/ GP_Enter(t)
       \/ GP_Extracted(t)
       \/ GP_Record(t)
       \/ GP_Unique(t)
       \/ GP_Exists(t)
       \/ GP_Upload(t)
       \/ GP_UploadFails(t)
       \/ GP_AfterLoop(t)
       \/ GP_Written(t)
  \/ \E c \in Files : DsmStep(c)

SpecGp == InitGp /\ [][NextGp]_vars

\* one run of main() over more statement files than the semaphore admits
NumGateFiles == 6

InitGate ==
  /\ docs = <<>>
  /\ blobs = <<>>
  /\ nextId = 1
  /\ faults = 0
  /\ dsm = [c \in 0..NumGateFiles |-> DsmIdle]
  /\ all_files = [i \in 1..NumGateFiles |-> i]
  /\ \E first \in {<<>>, << <<1, 0>> >>} : \E second \in {<<>>, << <<2, 0>> >>} :
       statements = [f \in 1..NumGateFiles |->
                       IF f = 1 THEN first ELSE IF f = 2 THEN second ELSE <<>>]
  /\ stem = [f \in 1..NumGateFiles |-> 1]
  /\ mailbox = <<1, 2>>
  /\ modelFile = NoModelFile
  /\ Matcher_model = ModelUnset
  /\ processed_records = {}
  /\ uploaded_file_hashes = {}
  /\ processed_email_hashes = {}
  /\ run = 1
  /\ main_pc = "start"
  /\ cur = MainCo
  /\ emails = <<>>
  /\ semaphore = 0
  /\ task = [f \in 1..NumGateFiles |-> TaskNew]
  /\ unm = UnmIdle
  /\ hist = HistNew
  /\ uploadLog = <<>>
  /\ writer = WriterOff
  /\ gp = GpOff

NextGate ==
  \/ M_Start
  \/ M_Fetched
  \/ \E t \in 1..NumGateFiles :
       \/ PF_Enter(t)
       \/ PF_Extracted(t)
       \/ PF_ExtractFails(t)
       \/ PF_Raise(t)
       \/ PF_Record(t)
       \/ PF_Upload(t)
       \/ PF_AppendRow(t)
       \/ PF_AfterLoop(t)
       \/ PF_Written(t)
  \/ M_Join
  \/ UN_Email
  \/ \E k \in 1..Max({Len(Attachments[e]) : e \in 1..Len(Attachments)}) : U_Run(k)
  \/ UN_Gathered
  \/ UN_AfterLoop
  \/ UN_Written
  \/ UN_Raise
  \/ \E c \in 0..NumGateFiles : DsmStep(c)

SpecGate == InitGate /\ [][NextGate]_vars

\* one run of main() under fair scheduling: the event loop runs a coroutine that
\* can go on, and every call handed to a thread returns or raises
InitLive ==
  InitMain(1..NumFiles, SeqsUpTo(RecordPool, 1), {<<>>, <<1, 2>>},
           {NoModelFile, OldModelFile})

SpecLive == InitLive /\ [][Next]_vars /\ WF_vars(Next)

(***************************************************************************)
(* Properties of drive_sheet_manager, checked under SpecWriter.            *)
(***************************************************************************)
\* a stored row as the writer reads it back: read_excel, then fillna("")
StoredView(row) == [k \in DOMAIN row |-> FillNa(ReadCell(row[k]))]

\* the rows of the spreadsheet of a name in a store (none when there is no such file)
SheetRows(store, name) ==
  IF \E id \in DOMAIN store : store[id].name = name
    THEN store[CHOOSE id \in DOMAIN store : store[id].name = name].rows
    ELSE <<>>

\* the columns that hold the derived upload links
LinkFields == {"attach_file_or_image_path", "attach_path"}

\* C6: drive_sheet_manager called twice in sequence with the same name, folder and
\* rows, no request failing: the document has as many rows after the second call
\* as after the first.
C6_SecondCallAddsNoRows ==
  (writer.pc = "returned" /\ writer.calls = 2 /\ faults = 0)
    => Len(SheetRows(docs, writer.sheet_name)) = Len(SheetRows(writer.first, writer.sheet_name))

\* C7: after a call with non-empty rows on an existing document, every row the
\* document held before the call is still held, whatever reading it gave.
C7_PriorRowsKept ==
  LET \* the content holds row r: a stored row agrees with r on every column of r
      Holds(content, r) ==
        \E j \in 1..Len(content) :
          /\ DOMAIN r \subseteq DOMAIN content[j]
          /\ \A k \in DOMAIN r : StoredView(content[j])[k] = StoredView(r)[k]
  IN (writer.pc = "returned" /\ writer.records # <<>>)
       => \A id \in DOMAIN writer.before :
            \A i \in 1..Len(writer.before[id].rows) :
              Holds(docs[id].rows, writer.before[id].rows[i])

\* C8: a row that differs from a stored row only in its link field
\* (attach_file_or_image_path or attach_path) is a duplicate: the call, no request
\* failing, leaves the document as it was.
C8_LinkFieldIgnored ==
  LET \* record r and stored row s differ in their link field and in nothing else
      DiffersOnlyInLink(r, s) ==
        /\ DOMAIN r = DOMAIN s
        /\ \E k \in DOMAIN r \cap LinkFields : r[k] # StoredView(s)[k]
        /\ \A k \in DOMAIN r \ LinkFields : r[k] = StoredView(s)[k]
  IN (/\ writer.pc = "returned" /\ writer.calls = 1 /\ faults = 0
      /\ Len(writer.records) = 1
      /\ \E id \in DOMAIN writer.before :
           \E i \in 1..Len(writer.before[id].rows) :
             DiffersOnlyInLink(writer.records[1], writer.before[id].rows[i]))
       => docs = writer.before

(***************************************************************************)
(* Properties of one run of main(), checked under Spec.                    *)
(***************************************************************************)
\* the union main() takes of the sets the process_file tasks returned
MatchedByFiles == UNION {task[f].result : f \in Scheduled}

\* the rows process_unmatched_emails appended for the e-mail of hash h
UnmatchedRowsOf(h) ==
  {j \in 1..Len(unm.unmatched_records) : unm.unmatched_records[j].email_link = <<h>>}

\* main() has returned from a run that had statement files
RunComplete == main_pc = "done" /\ all_files # <<>>

\* the calls of upload_unique_file that went on to upload_to_drive with a content
SentOf(content) ==
  {i \in 1..Len(uploadLog) : uploadLog[i].content = content /\ uploadLog[i].sent}

\* the blobs the store holds of a content
BlobsOf(content) == {b \in DOMAIN blobs : blobs[b].content = content}

\* C1: after a run of main() in which no file task raised, the hash of every
\* fetched e-mail is in exactly one of: the union of the sets the process_file
\* tasks returned, the e-mails the unmatched pass appended a row for.
C1_Partition ==
  (RunComplete /\ hist.raised = {})
    => \A i \in 1..Len(emails) :
         ~((emails[i] \in MatchedByFiles) <=> (UnmatchedRowsOf(emails[i]) # {}))

\* a run without a raise that ended with one fetched e-mail matched and another
\* one in the unmatched rows
C1_Witness ==
  /\ RunComplete /\ hist.raised = {}
  /\ \E i, j \in 1..Len(emails) :
       /\ emails[i] \in MatchedByFiles
       /\ UnmatchedRowsOf(emails[j]) # {}

\* C2: the unmatched pass runs only when every scheduled process_file task has
\* returned, no other task exists, and the set it received is the union of the
\* sets the tasks returned.
C2_JoinBeforeUnmatched ==
  main_pc = "unmatched"
    => /\ \A f \in Scheduled : task[f].pc = "done"
       /\ \A f \in Files \ Scheduled : task[f].pc = "new"
       /\ cur \notin Files
       /\ unm.matched_email_hashes = MatchedByFiles

\* the unmatched pass waits on its uploads after two file tasks, of which one
\* matched an e-mail
C2_Witness ==
  /\ main_pc = "unmatched" /\ unm.pc = "gather"
  /\ Cardinality(Scheduled) = 2
  /\ unm.matched_email_hashes # {}

\* C3: for each ledger, at most one caller finds a hash absent and does the work:
\* the matcher is called at most once per record hash (record_hash is the form),
\* an e-mail hash is taken at most once, a content goes to upload_to_drive at most
\* once.  Test and insert are in one step of the model, as in the code.
C3_OneObserverPerHash ==
  /\ \A r \in RecordForms : hist.matcherCalls[r] <= 1
  /\ \A e \in 1..Len(Attachments) : hist.consumed[e] <= 1
  /\ \A i \in 1..Len(uploadLog) : Cardinality(SentOf(uploadLog[i].content)) <= 1

\* two file tasks ran concurrently over the same record, and an upload found the
\* content of an earlier upload in the ledger
C3_Witness ==
  /\ Cardinality(Scheduled) = 2
  /\ \A f \in Scheduled : task[f].pc = "done"
  /\ \E r \in RecordForms :
       /\ hist.matcherCalls[r] = 1
       /\ \A f \in Scheduled : \E i \in 1..Len(statements[f]) : Form(statements[f][i]) = r
  /\ \E i \in 1..Len(uploadLog) : ~uploadLog[i].sent

\* C4 as stated: of two calls of upload_unique_file with the same content under
\* different names, exactly one blob is stored and the second returns None.
C4_ExactlyOneBlob ==
  \A i, j \in 1..Len(uploadLog) :
    (i < j /\ uploadLog[i].content = uploadLog[j].content
           /\ uploadLog[i].name # uploadLog[j].name)
      => /\ Cardinality(BlobsOf(uploadLog[i].content)) = 1
         /\ uploadLog[j].file_id = None

\* C4, amended: of two calls with the same content under different names, exactly
\* one goes to upload_to_drive; the store holds one blob of the content when that
\* upload succeeded and none when it failed; the second call returns None.
C4_OneUploadAttempt ==
  \A i, j \in 1..Len(uploadLog) :
    (i < j /\ uploadLog[i].content = uploadLog[j].content
           /\ uploadLog[i].name # uploadLog[j].name)
      => /\ Cardinality(SentOf(uploadLog[i].content)) = 1
         /\ \A k \in SentOf(uploadLog[i].content) :
              IF uploadLog[k].file_id # None
                THEN BlobsOf(uploadLog[i].content) = {uploadLog[k].file_id}
                ELSE BlobsOf(uploadLog[i].content) = {}
         /\ uploadLog[j].file_id = None /\ ~uploadLog[j].sent

\* the same content was handed over under two names; the first call stored it
C4_Witness ==
  \E i, j \in 1..Len(uploadLog) :
    /\ i < j /\ uploadLog[i].content = uploadLog[j].content
    /\ uploadLog[i].name # uploadLog[j].name
    /\ uploadLog[i].file_id # None
    /\ Cardinality(BlobsOf(uploadLog[i].content)) = 1

\* C5: a record whose canonical form occurs more than once in the run is passed to
\* the matcher at most once and gives at most one row.
C5_RecordOnce ==
  \A r \in RecordForms : hist.matcherCalls[r] <= 1 /\ hist.rowsOf[r] <= 1

\* the run is over; one form came twice, with its keys in two orders, and gave
\* one matcher call and one row
C5_Witness ==
  /\ RunComplete
  /\ \E r \in RecordForms :
       /\ hist.matcherCalls[r] = 1 /\ hist.rowsOf[r] = 1
       /\ \E f, g \in Scheduled :
            \E i \in 1..Len(statements[f]) : \E j \in 1..Len(statements[g]) :
              /\ Form(statements[f][i]) = r /\ Form(statements[g][j]) = r
              /\ statements[f][i] # statements[g][j]

(***************************************************************************)
(* Properties of repeated runs, checked under SpecRuns.                    *)
(***************************************************************************)
\* C9: main() run a second time as a new process over the same files, e-mails and
\* store, no request failing in either run: every document holds after the second
\* run the rows it held after the first.
C9_SecondRunAddsNoRows ==
  (run = 2 /\ main_pc = "done" /\ faults = 0) => docs = hist.docsBefore

\* C10: a later run does not upload an attachment an earlier run stored under the
\* same name: upload_unique_file skips it and returns None.
C10_NoUploadOfStoredContent ==
  \A i \in 1..Len(uploadLog) :
    (\E b \in DOMAIN blobs : /\ b < hist.idBefore
                             /\ blobs[b].content = uploadLog[i].content
                             /\ blobs[b].name = uploadLog[i].name)
      => ~uploadLog[i].sent /\ uploadLog[i].file_id = None

(***************************************************************************)
(* Properties of process_file of google_process.py, checked under SpecGp.  *)
(***************************************************************************)
\* the rows a google_process task appended for e-mail e
GpRowsOf(t, e) ==
  {j \in 1..Len(gp.task[t].final_records) :
     gp.task[t].final_records[j].sender_name = Email(e).sender_name}

\* the calls of upload_unique_file made for the attachments of e-mail e
GpUploadCallsOf(e) == {i \in 1..Len(uploadLog) : uploadLog[i].name[1] = e}

\* C11: two process_file tasks of google_process.py that each accepted a record
\* matching the same e-mail, no request failing: upload_unique_file was called once
\* per attachment of the e-mail (one task uploaded, the other took the links from
\* email_attachments_cache) and the rows of both tasks carry the same links.
C11_OneUploaderSameLinks ==
  \A f, g \in Files : \A e \in 1..Len(Attachments) :
    (/\ f # g /\ faults = 0
     /\ gp.task[f].pc = "done" /\ gp.task[g].pc = "done"
     /\ GpRowsOf(f, e) # {} /\ GpRowsOf(g, e) # {})
      => /\ Cardinality(GpUploadCallsOf(e)) = Len(Attachments[e])
         /\ \A i \in GpRowsOf(f, e) : \A j \in GpRowsOf(g, e) :
              gp.task[f].final_records[i].attach_path
                = gp.task[g].final_records[j].attach_path

(***************************************************************************)
(* Properties of the semaphore, checked under SpecGate.                    *)
(***************************************************************************)
\* the process_file invocations inside "async with semaphore"
InsideSemaphore == {t \in DOMAIN task : task[t].pc \notin {"new", "ready", "done"}}

\* C12: at every moment of a run of main() at most 5 process_file invocations are
\* inside the section the semaphore guards, however many files are scheduled.
C12_AtMostFiveInside == Cardinality(InsideSemaphore) <= SemaphoreCapacity

\* more files are scheduled than the semaphore admits: five are inside, a sixth
\* is held at the semaphore
C12_Witness ==
  /\ Cardinality(InsideSemaphore) = SemaphoreCapacity
  /\ semaphore = 0
  /\ \E t \in DOMAIN task : task[t].pc = "ready"

(***************************************************************************)
(* Properties of failures in one run of main(), checked under Spec.        *)
(***************************************************************************)
\* C13: a process_file task that raises ends with the empty set as its result;
\* the exception does not reach main(): the join still takes a result of every
\* scheduled file and the unmatched pass runs.
C13_RaiseIsolated ==
  /\ \A t \in hist.raised : task[t].pc = "done" /\ task[t].result = {}
  /\ main_pc \in {"unmatched", "done"} /\ all_files # <<>>
       => \A f \in Scheduled : task[f].pc = "done"
  /\ RunComplete => unm.pc = "done"

\* a run in which one file task raised and the other returned a matched e-mail,
\* and the unmatched pass has run
C13_Witness ==
  /\ RunComplete /\ unm.pc = "done"
  /\ \E t, f \in Scheduled : t \in hist.raised /\ task[f].result # {}

(***************************************************************************)
(* Termination of the file tasks, checked under SpecLive.                  *)
(***************************************************************************)
\* C14: under fair scheduling, every external call returning or raising: once
\* the file tasks are scheduled, every one of them finishes, every permit of the
\* semaphore is given back, and process_unmatched_emails is started.
C14_TasksFinish ==
  (main_pc = "gather")
    ~> (/\ main_pc = "unmatched"
        /\ \A f \in Scheduled : task[f].pc = "done"
        /\ semaphore = SemaphoreCapacity)

\* the unmatched pass has started after two file tasks of which one left by the
\* exception handler and the other by a return
C14_Witness ==
  /\ main_pc = "unmatched"
  /\ semaphore = SemaphoreCapacity
  /\ Cardinality(Scheduled) = 2
  /\ \E t, f \in Scheduled : t \in hist.raised /\ f \notin hist.raised

\* the references upload_unique_file returned for the attachments of e-mail e
LinksOf(e) ==
  LET ok == SelectSeq(uploadLog, LAMBDA r : r.name[1] = e /\ r.file_id # None)
  IN [k \in 1..Len(ok) |-> ok[k].file_id]

\* C15: upload_unique_file of main.py returns a reference to a stored file or None,
\* whatever the backend does; a matched e-mail whose attachments have been handled
\* has its row in matched_records, with the references of the uploads that succeeded.
C15_FailedUploadKeepsRow ==
  /\ \A i \in 1..Len(uploadLog) :
       uploadLog[i].file_id = None \/ uploadLog[i].file_id \in DOMAIN blobs
  /\ \A t \in Files : \A e \in task[t].matched_email_hashes :
       \/ task[t].pc = "upload" /\ task[t].email = e
       \/ \E j \in 1..Len(task[t].matched_records) :
            /\ task[t].matched_records[j].email_link = <<e>>
            /\ task[t].matched_records[j].attach_file_or_image_path = LinksOf(e)

\* the upload of one attachment of a matched e-mail failed, another succeeded, and
\* the row of the e-mail was appended with the one reference
C15_Witness ==
  \E t \in Files : \E j \in 1..Len(task[t].matched_records) :
    LET e == task[t].matched_records[j].email_link[1]
    IN /\ \E i \in 1..Len(uploadLog) :
            uploadLog[i].name[1] = e /\ uploadLog[i].sent /\ uploadLog[i].file_id = None
       /\ Len(task[t].matched_records[j].attach_file_or_image_path) = 1
       /\ task[t].matched_records[j].attach_file_or_image_path = LinksOf(e)

(***************************************************************************)
(* Further properties of drive_sheet_manager, checked under SpecWriter.    *)
(***************************************************************************)
\* C16: a call of drive_sheet_manager during which a backend operation failed
\* (listing, creating, downloading, reading, updating) returns None.
C16_FailureReturnsNone ==
  (writer.pc = "returned" /\ writer.calls = 1 /\ faults > 0) => writer.rets[1] = None

\* C17: drive_sheet_manager called with no rows downloads and updates nothing; an
\* existing document of the name is left as it is and its reference returned; when
\* there is none, exactly one empty document is created and its reference returned.
C17_EmptyRowsOnlyResolve ==
  /\ (dsm[0].pc # "idle" /\ dsm[0].records = <<>>)
       => dsm[0].pc \in {"list", "create_empty", "done"}
  /\ (writer.pc = "returned" /\ writer.calls = 1 /\ writer.records = <<>>)
       => LET named == {id \in DOMAIN writer.before :
                          writer.before[id].name = writer.sheet_name}
              ref == writer.rets[1]
          IN IF faults > 0 THEN ref = None /\ docs = writer.before
             ELSE IF named # {} THEN ref \in named /\ docs = writer.before
             ELSE /\ ref \notin DOMAIN writer.before
                  /\ docs = writer.before @@ (ref :> [name |-> writer.sheet_name,
                                                      rows |-> <<>>])

\* the call with no rows found no document and created an empty one
C17_Witness ==
  /\ writer.pc = "returned" /\ writer.calls = 1 /\ writer.records = <<>>
  /\ writer.before = <<>>
  /\ writer.rets[1] \in DOMAIN docs
  /\ docs[writer.rets[1]].rows = <<>>

(***************************************************************************)
(* Properties of the matching, checked under Spec.                         *)
(***************************************************************************)
\* C18: process_file accepts a match only when the score exceeds 0.7: a task that
\* goes on to consume the e-mail and upload its attachments holds a record whose
\* score is above AcceptScore.
C18_AcceptedAboveThreshold ==
  \A t \in Files :
    task[t].pc = "upload"
      => match(Matcher_model, Form(task[t].records[task[t].i]))[2] > AcceptScore

\* C19: an e-mail that match_record_email returned for a non-empty corpus, and
\* process_file accepted, is an element of the corpus passed to the call, and the
\* first of the highest-scoring elements of that corpus.
C19_MatchFromCorpus ==
  \A t \in Files :
    (task[t].pc = "upload" /\ emails # <<>>)
      => /\ task[t].email \in Range(emails)
         /\ task[t].email = emails[ArgMax(Form(task[t].records[task[t].i]), emails)]

\* C20: match_record_email called with an empty corpus returns (None, 0.0) for any
\* record, in every state of Matcher._model and of the model file.
C20_EmptyCorpusNoMatch ==
  (main_pc = "gather" /\ emails = <<>>)
    => \A r \in RecordPool : match_record_email(r, emails) = <<None, 0>>

(***************************************************************************)
(* Properties of the matcher as a function, checked under Spec.            *)
(***************************************************************************)
\* what match_record_email returns in a process that found no model file and has
\* made no call yet: lines 73-83 of matcher.py
FreshMatch(record, corpus) ==
  match(IF corpus # <<>> THEN [loaded |-> TRUE, fitted |-> TRUE, emails |-> corpus]
                         ELSE [loaded |-> TRUE, fitted |-> FALSE, emails |-> <<>>],
        Form(record))

\* C21: match_record_email is a function of its arguments: in every state of
\* Matcher._model and of the model file, a call with a record and the fetched corpus
\* returns what the same call returns in a process that found no model file.
C21_MatchIsFunctionOfArgs ==
  main_pc = "gather"
    => \A r \in RecordPool : match_record_email(r, emails) = FreshMatch(r, emails)

(***************************************************************************)
(* Properties of the rows of process_file of main.py, checked under Spec.  *)
(***************************************************************************)
\* the record form went through line 116 and its match passes the first two tests
\* of line 117: an e-mail came back and its score is not below 0.7
AcceptedForm(r) ==
  /\ hist.matcherCalls[r] = 1
  /\ match(Matcher_model, r)[1] # None
  /\ ~(match(Matcher_model, r)[2] < AcceptScore)

\* a process_file task is between the match of a record of form r and its row
InUpload(r) ==
  \E t \in Files : task[t].pc = "upload" /\ Form(task[t].records[task[t].i]) = r

\* C22: every accepted, non-duplicate record gives exactly one row, also when
\* another record matched the same e-mail before it.
C22_RowPerAcceptedRecord ==
  \A r \in RecordForms : (AcceptedForm(r) /\ ~InUpload(r)) => hist.rowsOf[r] = 1

(***************************************************************************)
(* Properties of the accounting of e-mails, checked under Spec.            *)
(***************************************************************************)
\* the store holds a row of the e-mail of hash h in a document of the name
HasRowIn(name, h) ==
  \E id \in DOMAIN docs :
    /\ docs[id].name = name
    /\ \E j \in 1..Len(docs[id].rows) : docs[id].rows[j].email_link = <<h>>

\* no two scheduled files write to the same document
DistinctStems == \A f, g \in Scheduled : f # g => stem[f] # stem[g]

\* C23: after a run, an e-mail that a process_file task consumed has a row in the
\* document of that file or in the unmatched document, also when the task raised
\* later and returned the empty set, or when its sheet write returned None.
C23_ConsumedIsAccounted ==
  (RunComplete /\ DistinctStems)
    => \A t \in Scheduled : \A e \in task[t].matched_email_hashes :
         HasRowIn(stem[t], e) \/ HasRowIn(UnmatchedSheet, e)

(***************************************************************************)
(* Properties of the ledger of uploads, checked under Spec.                *)
(***************************************************************************)
\* C24: once upload_unique_file of main.py has returned for a content, the hash
\* of the content is in uploaded_file_hashes, whether the upload succeeded, failed
\* or was skipped; every later call of the run with the same content returns None
\* and makes no request to the store.
C24_HashMarkedOnReturn ==
  /\ \A i \in 1..Len(uploadLog) : uploadLog[i].content \in uploaded_file_hashes
  /\ \A i, j \in 1..Len(uploadLog) :
       (i < j /\ uploadLog[i].content = uploadLog[j].content)
         => ~uploadLog[j].sent /\ uploadLog[j].file_id = None

\* an upload failed and a later call with the same content was skipped
C24_Witness ==
  \E i, j \in 1..Len(uploadLog) :
    /\ i < j /\ uploadLog[i].content = uploadLog[j].content
    /\ uploadLog[i].sent /\ uploadLog[i].file_id = None
    /\ ~uploadLog[j].sent
    /\ BlobsOf(uploadLog[i].content) = {}

(***************************************************************************)
(* The merge of drive_sheet_manager, checked under SpecWriter.             *)
(***************************************************************************)
\* the ids of the documents of the writer's sheet name before the call
NamedBefore == {id \in DOMAIN writer.before : writer.before[id].name = writer.sheet_name}

\* lines 225-237 on the document as it was before the call: every row handed over
\* has its identity hash among the hashes of the rows read from the document
AllHashesPresent ==
  /\ NamedBefore # {}
  /\ \A i \in 1..Len(writer.records) :
       RecordRowHash(writer.records[i])
         \in existing_hashes(read_excel(SheetRows(writer.before, writer.sheet_name)))

\* C25: a call of drive_sheet_manager, no request failing, in which every row has
\* its identity hash in the existing document: nothing is created, the document
\* is as it was, and the reference of the existing document is returned.
C25_NoWriteWhenAllKnown ==
  (writer.pc = "returned" /\ faults = 0 /\ AllHashesPresent)
    => /\ docs = writer.before
       /\ nextId = Max(DOMAIN writer.before) + 1
       /\ writer.rets[writer.calls] \in NamedBefore

\* the call was made with two rows whose hashes the document held: it returned
\* the document's reference and wrote nothing
C25_Witness ==
  /\ writer.pc = "returned" /\ faults = 0 /\ AllHashesPresent
  /\ Len(writer.records) = 2
  /\ docs = writer.before
  /\ writer.rets[writer.calls] \in NamedBefore

(***************************************************************************)
(* The lazy fit of the matcher and its model file, checked under Spec.     *)
(***************************************************************************)
\* a model fitted on a corpus, and the file model.save leaves of it
FittedOn(corpus) == [loaded |-> TRUE, fitted |-> TRUE, emails |-> corpus]
SavedFrom(corpus) == [exists |-> TRUE, emails |-> corpus]

C27_EmptyExtractionFrame ==
  [][\A t \in Files :
       (task[t].pc = "extracting" /\ task'[t].pc = "done")
         => /\ task'[t].result = {}
            /\ task'[t].matched_records = <<>>
            /\ task'[t].matched_email_hashes = {}
            /\ dsm'[t] = DsmIdle
            /\ UNCHANGED <<ledgerVars, docs, blobs, nextId>>
    ]_vars

\* the extraction of a file with records failed and the task returned the empty
\* set, while another task had marked a record
C27_Witness ==
  \E t \in Scheduled :
    /\ task[t].pc = "done" /\ task[t].result = {}
    /\ statements[t] # <<>> /\ task[t].records = <<>>
    /\ processed_records # {}

(***************************************************************************)
(* The order of the rows, checked under Spec.                              *)
(***************************************************************************)
\* the stored row s is the row r: it agrees with r, as read back, on r's columns
RowIs(s, r) ==
  /\ DOMAIN r \subseteq DOMAIN s
  /\ \A k \in DOMAIN r : StoredView(s)[k] = StoredView(r)[k]

\* the rows written are the rows read, in their order, followed by rows of
\* records in the order of records
ExistingThenNewInOrder(written, df_existing, records) ==
  LET n == Len(df_existing)
      m == Len(written) - n
  IN /\ m >= 0
     /\ \A j \in 1..n : RowIs(written[j], df_existing[j])
     /\ \E pos \in [1..m -> 1..Len(records)] :
          /\ \A j \in 1..m : RowIs(written[n + j], records[pos[j]])
          /\ \A j \in 1..(m - 1) : pos[j] < pos[j + 1]

\* what a step has to do for the order to be kept in the activation of caller c
WriteKeepsOrder(c) ==
  (dsm[c].pc = "write" /\ dsm'[c].pc = "done" /\ docs' # docs)
    => ExistingThenNewInOrder(docs'[dsm'[c].file_id].rows, dsm[c].df_existing,
                              dsm[c].records)

\* C28: within one file the loop of process_file goes through the records in
\* extraction order and appends each row at the end of matched_records, which is
\* handed to the writer as it is; drive_sheet_manager stores the rows it read,
\* then the new unique rows in the order in which they were handed over.
C28_RowsInExtractionOrder ==
  [][/\ \A t \in Files :
          /\ task'[t].i >= task[t].i
          /\ task'[t].matched_records # task[t].matched_records
               => /\ task[t].records[task[t].i] = statements[t][task[t].i]
                  /\ task'[t].i = task[t].i + 1
                  /\ task'[t].matched_records
                       = Append(task[t].matched_records,
                                MainRow(Email(task[t].email), task[t].attachment_paths))
          /\ (task[t].pc = "loop" /\ task'[t].pc = "writing")
               => dsm'[t].records = task[t].matched_records
     /\ \A c \in Callers : WriteKeepsOrder(c)
    ]_vars

\* a file of two records gave two rows, stored in the order of the records
C28_Witness ==
  \E t \in Scheduled : \E id \in DOMAIN docs :
    /\ task[t].pc = "done" /\ Len(task[t].matched_records) = 2
    /\ docs[id].name = stem[t] /\ Len(docs[id].rows) = 2
    /\ \A j \in 1..2 : RowIs(docs[id].rows[j], task[t].matched_records[j])
    /\ docs[id].rows[1] # docs[id].rows[2]

(***************************************************************************)
(* The ledgers of main.py over one process, checked under Spec.            *)
(***************************************************************************)
\* C29: processed_records, uploaded_file_hashes and processed_email_hashes are
\* empty when the process starts, and no step of the run, error paths included,
\* takes a hash out of any of them.
C29_LedgersGrow ==
  [][/\ main_pc = "start"
          => /\ processed_records = {}
             /\ uploaded_file_hashes = {}
             /\ processed_email_hashes = {}
     /\ processed_records \subseteq processed_records'
     /\ uploaded_file_hashes \subseteq uploaded_file_hashes'
     /\ processed_email_hashes \subseteq processed_email_hashes'
    ]_vars

\* a file task has left by its exception handler and the run is over: the three
\* ledgers hold what the run put in them
C29_Witness ==
  /\ RunComplete /\ hist.raised # {}
  /\ processed_records # {}
  /\ uploaded_file_hashes # {}
  /\ \E t \in hist.raised :
       task[t].matched_email_hashes # {}
         /\ task[t].matched_email_hashes \subseteq processed_email_hashes

(***************************************************************************)
(* Failures in process_unmatched_emails, checked under Spec.  The calls    *)
(* that can fail while an e-mail is handled are the uploads of its         *)
(* attachments (lines 171-178).                                            *)
(***************************************************************************)
\* the calls of upload_unique_file whose request to the store failed
FailedUploads == {i \in 1..Len(uploadLog) : uploadLog[i].sent /\ uploadLog[i].file_id = None}

\* the e-mails left to process_unmatched_emails
LeftUnmatched == Range(emails) \ UNION {task[t].matched_email_hashes : t \in Scheduled}

\* C30: an upload that fails while process_unmatched_emails handles an e-mail is
\* confined to that e-mail: when no other request failed, every e-mail left
\* unmatched has its one row at the end of the run, and every such row is in the
\* unmatched document.
C30_UnmatchedFailureConfined ==
  (/\ RunComplete
   /\ faults = Cardinality(FailedUploads)
   /\ \E i \in FailedUploads : uploadLog[i].name[1] \in LeftUnmatched)
    => \A e \in LeftUnmatched :
         /\ Cardinality(UnmatchedRowsOf(e)) = 1
         /\ HasRowIn(UnmatchedSheet, e)

\* the upload of an attachment of the first unmatched e-mail failed; the second
\* e-mail was handled after it and the rows of both are in the document
C30_Witness ==
  /\ RunComplete /\ emails = <<1, 2>> /\ LeftUnmatched = {1, 2}
  /\ \E i \in FailedUploads : uploadLog[i].name[1] = 1
  /\ UnmatchedRowsOf(1) = {1} /\ UnmatchedRowsOf(2) = {2}
  /\ HasRowIn(UnmatchedSheet, 1) /\ HasRowIn(UnmatchedSheet, 2)

(***************************************************************************)
(* One row per e-mail over the whole run, checked under Spec.              *)
(***************************************************************************)
\* the rows the process_file task of file t appended for the e-mail of hash h
FileRowsOf(t, h) ==
  {j \in 1..Len(task[t].matched_records) : task[t].matched_records[j].email_link = <<h>>}

\* the rows appended for the e-mail of hash h in the run, file batches and the
\* unmatched batch together, as pairs <<batch, index>>
AllRowsOf(h) ==
  UNION {{<<t, j>> : j \in FileRowsOf(t, h)} : t \in Files}
    \cup {<<UnmatchedSheet, j>> : j \in UnmatchedRowsOf(h)}

\* C31: in one run of main(), for every interleaving of the file tasks, every
\* e-mail hash is the subject of at most one appended row, file batches and the
\* unmatched batch together, and is in the returned set of at most one file task.
C31_OneRowPerEmail ==
  \A h \in 1..Len(Attachments) :
    /\ Cardinality(AllRowsOf(h)) <= 1
    /\ Cardinality({t \in Files : h \in task[t].result}) <= 1

\* two file tasks each held a record that matches e-mail 2; the run is over, one
\* of them has the row and the hash, and e-mail 1 has its row in the unmatched batch
C31_Witness ==
  /\ RunComplete /\ emails = <<1, 2>>
  /\ \E f, g \in Scheduled :
       /\ f # g
       /\ statements[f] = << <<3, 0>> >> /\ statements[g] = << <<2, 0>> >>
       /\ task[f].records # <<>> /\ task[g].records # <<>>
       /\ Cardinality(FileRowsOf(f, 2)) + Cardinality(FileRowsOf(g, 2)) = 1
       /\ Cardinality({t \in Files : 2 \in task[t].result}) = 1
  /\ UnmatchedRowsOf(1) # {} /\ UnmatchedRowsOf(2) = {}

(***************************************************************************)
(* Concurrent writers of one document, checked under Spec.                 *)
(***************************************************************************)
\* the documents of a name in the store
DocsNamed(name) == {id \in DOMAIN docs : docs[id].name = name}

\* C32: two process_file tasks whose files share a stem run drive_sheet_manager
\* in worker threads, no request failing: after the run one document of the name
\* exists and it holds the rows of both tasks.
C32_SharedStemKeepsBothRows ==
  \A f, g \in Scheduled :
    (/\ RunComplete /\ faults = 0
     /\ f # g /\ stem[f] = stem[g]
     /\ task[f].matched_records # <<>> /\ task[g].matched_records # <<>>)
      => /\ Cardinality(DocsNamed(stem[f])) = 1
         /\ \A t \in {f, g} : \A h \in task[t].matched_email_hashes :
              \A id \in DocsNamed(stem[f]) :
                \E j \in 1..Len(docs[id].rows) : docs[id].rows[j].email_link = <<h>>

(***************************************************************************)
(* The links of a row, checked under Spec.                                 *)
(***************************************************************************)
\* the rows appended in the run: those of the file batches and of the unmatched batch
AppendedRows ==
  UNION {Range(task[t].matched_records) : t \in Files} \cup Range(unm.unmatched_records)

\* the calls of upload_unique_file made for the attachments of the e-mail of hash h
UploadCallsOf(h) == {i \in 1..Len(uploadLog) : uploadLog[i].name[1] = h}

\* the attachments of the e-mail of hash h are being handled
Handling(h) ==
  \/ \E t \in Files : task[t].pc = "upload" /\ task[t].email = h
  \/ unm.pc = "gather" /\ unm.email = h

\* C33: in main.py the link field of a row lists exactly the attachments that the
\* processing of its e-mail newly uploaded: every link is a file stored under a
\* name of this e-mail, every reference an upload of this e-mail returned is
\* listed, and an attachment that was skipped because its bytes were uploaded
\* earlier in the run has no link; the row of such an e-mail is appended all the same.
C33_LinksAreOwnNewUploads ==
  /\ \A row \in AppendedRows :
       LET h == row.email_link[1]
           links == row.attach_file_or_image_path
       IN /\ \A k \in 1..Len(links) :
               /\ links[k] \in DOMAIN blobs
               /\ blobs[links[k]].name[1] = h
               /\ \A i \in UploadCallsOf(h) :
                    ~uploadLog[i].sent => blobs[links[k]].content # uploadLog[i].content
          /\ Range(links) = {uploadLog[i].file_id : i \in UploadCallsOf(h)} \ {None}
          /\ Cardinality(Range(links)) = Len(links)
  /\ \A h \in 1..Len(Attachments) :
       (UploadCallsOf(h) # {} /\ ~Handling(h))
         => \E row \in AppendedRows : row.email_link = <<h>>

\* e-mail 1 was handled first and its attachment stored; the first attachment of
\* e-mail 2 has the same bytes and was skipped: the row of e-mail 2 is appended
\* with the one link of its second attachment
C33_Witness ==
  \E row \in AppendedRows :
    /\ row.email_link = <<2>>
    /\ Len(row.attach_file_or_image_path) = 1
    /\ blobs[row.attach_file_or_image_path[1]].content = Attachments[2][2]
    /\ \E i \in UploadCallsOf(2) :
         ~uploadLog[i].sent /\ uploadLog[i].content = Attachments[2][1]
    /\ \E b \in DOMAIN blobs : blobs[b].name[1] = 1 /\ blobs[b].content = Attachments[2][1]

(***************************************************************************)
(* A run without statement files, checked under Spec.                      *)
(***************************************************************************)
\* C34: when the statements directory holds no file, main() returns before the
\* fetch: no e-mail is fetched, no task and no unmatched pass is started, the
\* ledgers stay empty, nothing is uploaded and no document is created or written.
C34_NoFilesNoEffect ==
  all_files = <<>>
    => /\ main_pc \in {"start", "done"}
       /\ emails = <<>>
       /\ \A t \in Files : task[t] = TaskNew
       /\ unm = UnmIdle
       /\ processed_records = {}
       /\ uploaded_file_hashes = {}
       /\ processed_email_hashes = {}
       /\ uploadLog = <<>>
       /\ docs = <<>> /\ blobs = <<>> /\ nextId = 1
       /\ \A c \in Callers : dsm[c] = DsmIdle

\* main() has returned from a run without statement files while the mailbox
\* held e-mails
C34_Witness ==
  /\ all_files = <<>> /\ main_pc = "done"
  /\ mailbox = <<1, 2>>
  /\ emails = <<>> /\ docs = <<>>

====
